---- MODULE Spec2Model ----
(***************************************************************************)
(* A model of the two decision components of the SuperClaude skills:       *)
(*   - the Evidence Validator (self-check: selfCheck and its four          *)
(*     question validators, the red-flag detector and the report), and     *)
(*   - the Pattern Matcher (reflexion: createErrorSignature,               *)
(*     matchSignatures, lookupSolution, serialiseSolution).                *)
(*                                                                         *)
(* Representation.                                                         *)
(*   A string that the code inspects character by character (trim,         *)
(*   toLowerCase, includes, split, replace, slice) is a sequence of        *)
(*   one-character strings.  A text that the code only assembles (an       *)
(*   issue, a report) is the sequence of the pieces it is concatenated     *)
(*   from, each piece a TLA+ string; "\n" is the line break piece.         *)
(*   The module is plain ASCII, so the glyphs of the source are written    *)
(*   by their code points: [U+274C] cross mark, [U+2705] check mark        *)
(*   button, [U+2713] check mark, [U+1F6A8] siren, [U+1F4CB] clipboard,    *)
(*   [U+1F4CA] bar chart, and "--" for the em dash.                        *)
(***************************************************************************)
EXTENDS Integers, Sequences, FiniteSets, TLC

VARIABLES
    impl,       \* the completion claim handed to selfCheck
    verdict,    \* the ValidationResult selfCheck returned for impl, if any
    reqIssue,   \* what checkRequirementsMet returned for impl, if anything
    left,       \* an ErrorInfo handed to createErrorSignature
    right,      \* a second ErrorInfo handed to createErrorSignature
    sigs,       \* the two signatures handed to matchSignatures, if any yet
    similar,    \* the call of matchSignatures on sigs and what it returned
    log,        \* the lines of solutions_learned.jsonl, oldest first
    now,        \* the clock: what the next `new Date()` reads
    lookup,     \* the last call of lookupSolution: its arguments and outcome
    recorded    \* the calls of serialiseSolution so far, oldest first: the
                \* argument, the clock, the argument after the call, the line
                \* of the log that holds what the call returned

\* ------------------------------------------------------------------------
\* Optional values: an absent (undefined) property, a null return.
\* ------------------------------------------------------------------------
Absent == [def |-> FALSE]
Some(v) == [def |-> TRUE, v |-> v]

\* `x ?? []`
OrEmpty(x) == IF x.def THEN x.v ELSE <<>>

\* ------------------------------------------------------------------------
\* Character strings
\* ------------------------------------------------------------------------
Range(list) == {list[i] : i \in 1..Len(list)}

WhiteSpace == {" ", "\t", "\n"}

UpperCase == <<"A", "B", "C", "D", "E", "F", "G", "H", "I", "J", "K", "L", "M",
               "N", "O", "P", "Q", "R", "S", "T", "U", "V", "W", "X", "Y", "Z">>
LowerCase == <<"a", "b", "c", "d", "e", "f", "g", "h", "i", "j", "k", "l", "m",
               "n", "o", "p", "q", "r", "s", "t", "u", "v", "w", "x", "y", "z">>

LowerOf == [c \in Range(UpperCase) |-> LowerCase[CHOOSE i \in 1..Len(UpperCase) : UpperCase[i] = c]]

toLowerCaseChar(c) == IF c \in DOMAIN LowerOf THEN LowerOf[c] ELSE c

\* String.prototype.toLowerCase
toLowerCase(s) == [i \in 1..Len(s) |-> toLowerCaseChar(s[i])]

SetMin(S) == CHOOSE m \in S : \A n \in S : m <= n
SetMax(S) == CHOOSE m \in S : \A n \in S : n <= m

\* String.prototype.trim
trim(s) ==
    LET inked == {i \in 1..Len(s) : s[i] \notin WhiteSpace}
    IN  IF inked = {} THEN <<>> ELSE SubSeq(s, SetMin(inked), SetMax(inked))

\* String.prototype.includes
includes(s, w) == \E i \in 0..(Len(s) - Len(w)) : SubSeq(s, i + 1, i + Len(w)) = w

\* Array.prototype.join on a list of pieces: the pieces with sep between them
RECURSIVE join(_, _)
join(list, sep) ==
    IF list = <<>> THEN <<>>
    ELSE IF Len(list) = 1 THEN <<list[1]>>
    ELSE <<list[1], sep>> \o join(Tail(list), sep)


\* ------------------------------------------------------------------------
\* Evidence Validator: the four questions
\* ------------------------------------------------------------------------
UNCERTAINTY_WORDS ==
    << <<"p", "r", "o", "b", "a", "b", "l", "y">>,
       <<"m", "a", "y", "b", "e">>,
       <<"s", "h", "o", "u", "l", "d", " ", "w", "o", "r", "k">>,
       <<"m", "i", "g", "h", "t", " ", "w", "o", "r", "k">>,
       <<"s", "e", "e", "m", "s", " ", "t", "o">>,
       <<"a", "p", "p", "e", "a", "r", "s", " ", "t", "o">> >>

\* The pieces that name the uncertainty words in the flag text
UncertaintyName(w) ==
    CASE w = UNCERTAINTY_WORDS[1] -> "probably"
      [] w = UNCERTAINTY_WORDS[2] -> "maybe"
      [] w = UNCERTAINTY_WORDS[3] -> "should work"
      [] w = UNCERTAINTY_WORDS[4] -> "might work"
      [] w = UNCERTAINTY_WORDS[5] -> "seems to"
      [] w = UNCERTAINTY_WORDS[6] -> "appears to"

passingIndicators ==
    << <<"p", "a", "s", "s", "e", "d">>,
       <<"O", "K">>,
       <<"U+2713">>,
       <<"U+2705">>,
       <<"s", "u", "c", "c", "e", "s", "s">> >>

TestsNotPassing == <<"[U+274C] Tests not passing -- implementation is incomplete">>
TestsNoOutput ==
    <<"[U+274C] Tests claimed passing but no output provided (hallucination risk)">>
TestsNoIndicator == <<"[U+274C] Test output does not contain a passing indicator">>
RequirementsPrefix == "[U+274C] Requirements not fully met: "
AssumptionsPrefix == "[U+274C] Unverified assumptions: "
EvidencePrefix == "[U+274C] Missing evidence: "

\* A slip of checkTestsPassing: the flag is believed without output
checkTestsPassingBelievesFlag(i) ==
    IF ~i.testsPassed THEN Some(TestsNotPassing)
    ELSE IF ~i.testOutput.def \/ i.testOutput.v = <<>> THEN Absent
    ELSE IF trim(i.testOutput.v) = <<>> THEN Some(TestsNoOutput)
    ELSE IF ~\E k \in 1..Len(passingIndicators) :
                includes(toLowerCase(i.testOutput.v), toLowerCase(passingIndicators[k]))
    THEN Some(TestsNoIndicator)
    ELSE Absent

\* Question 1: are all tests passing, with evidence?
checkTestsPassing(i) ==
    IF ~i.testsPassed THEN Some(TestsNotPassing)
    ELSE IF ~i.testOutput.def \/ i.testOutput.v = <<>> \/ trim(i.testOutput.v) = <<>>
    THEN Some(TestsNoOutput)
    ELSE IF ~\E k \in 1..Len(passingIndicators) :
                includes(toLowerCase(i.testOutput.v), toLowerCase(passingIndicators[k]))
    THEN Some(TestsNoIndicator)
    ELSE Absent

\* A slip of checkRequirementsMet: the lists compared as lists
checkRequirementsMetAsLists(i) ==
    LET requirements == OrEmpty(i.requirements)
    IN  IF Len(requirements) = 0 THEN Absent
        ELSE IF OrEmpty(i.requirementsMet) = requirements THEN Absent
        ELSE Some(<<RequirementsPrefix>> \o join(requirements, ", "))

\* Question 2: are all requirements met?
checkRequirementsMet(i) ==
    LET requirements == OrEmpty(i.requirements)
        metSet == Range(OrEmpty(i.requirementsMet))
        Unmet(r) == r \notin metSet
        unmet == SelectSeq(requirements, Unmet)
    IN  IF Len(requirements) = 0 THEN Absent
        ELSE IF Len(unmet) = 0 THEN Absent
        ELSE Some(<<RequirementsPrefix>> \o join(unmet, ", "))

\* Question 3: are all assumptions verified?
checkAssumptionsVerified(i) ==
    LET assumptions == OrEmpty(i.assumptions)
        verifiedSet == Range(OrEmpty(i.assumptionsVerified))
        Unverified(a) == a \notin verifiedSet
        unverified == SelectSeq(assumptions, Unverified)
    IN  IF Len(assumptions) = 0 THEN Absent
        ELSE IF Len(unverified) = 0 THEN Absent
        ELSE Some(<<AssumptionsPrefix>> \o join(unverified, ", "))

\* `impl.evidence ?? {}`
NoEvidenceFields == [testResults |-> Absent, codeChanges |-> Absent, validation |-> Absent]

\* A slip of checkEvidenceExists: any one kind of evidence is enough
checkEvidenceExistsAnyKind(i) ==
    LET ev == IF i.evidence.def THEN i.evidence.v ELSE NoEvidenceFields
        missing ==
            (IF ~ev.testResults.def \/ ev.testResults.v = <<>>
                \/ trim(ev.testResults.v) = <<>>
             THEN <<"testResults">> ELSE <<>>)
            \o (IF ~ev.codeChanges.def \/ Len(ev.codeChanges.v) = 0
                THEN <<"codeChanges">> ELSE <<>>)
            \o (IF ~ev.validation.def \/ ev.validation.v = <<>>
                   \/ trim(ev.validation.v) = <<>>
                THEN <<"validation">> ELSE <<>>)
    IN  IF Len(missing) < 3 THEN Absent
        ELSE Some(<<EvidencePrefix>> \o join(missing, ", "))

\* Question 4: is there evidence?
checkEvidenceExists(i) ==
    LET ev == IF i.evidence.def THEN i.evidence.v ELSE NoEvidenceFields
        missing ==
            (IF ~ev.testResults.def \/ ev.testResults.v = <<>>
                \/ trim(ev.testResults.v) = <<>>
             THEN <<"testResults">> ELSE <<>>)
            \o (IF ~ev.codeChanges.def \/ Len(ev.codeChanges.v) = 0
                THEN <<"codeChanges">> ELSE <<>>)
            \o (IF ~ev.validation.def \/ ev.validation.v = <<>>
                   \/ trim(ev.validation.v) = <<>>
                THEN <<"validation">> ELSE <<>>)
    IN  IF Len(missing) = 0 THEN Absent
        ELSE Some(<<EvidencePrefix>> \o join(missing, ", "))

\* ------------------------------------------------------------------------
\* Evidence Validator: red flags
\* ------------------------------------------------------------------------
FlagNoOutput == <<"Claims tests pass without showing output">>
FlagNoEvidence == <<"Claims completion without any evidence">>
FlagFailingTests == <<"Claims completion despite failing tests">>
FlagIgnoredSignals == <<"Ignored errors or warnings while claiming completion">>
FlagUncertaintyPrefix == "Uncertainty language detected: \""

StatusComplete == "complete"

\* A slip of detectHallucinations: failing tests raise no flag
detectHallucinationsTrustsStatus(i) ==
    LET isComplete == i.status.def /\ i.status.v = StatusComplete
        hasErrors == Len(OrEmpty(i.errors)) > 0
        hasWarnings == Len(OrEmpty(i.warnings)) > 0
        desc == toLowerCase(OrEmpty(i.description))
        InDesc(w) == includes(desc, w)
        uncertaintyFound == SelectSeq(UNCERTAINTY_WORDS, InDesc)
        names == [k \in 1..Len(uncertaintyFound) |-> UncertaintyName(uncertaintyFound[k])]
    IN  (IF i.testsPassed /\ (~i.testOutput.def \/ i.testOutput.v = <<>>)
         THEN <<FlagNoOutput>> ELSE <<>>)
        \o (IF isComplete /\ ~i.evidence.def THEN <<FlagNoEvidence>> ELSE <<>>)
        \o (IF (hasErrors \/ hasWarnings) /\ isComplete
            THEN <<FlagIgnoredSignals>> ELSE <<>>)
        \o (IF Len(uncertaintyFound) > 0
            THEN << <<FlagUncertaintyPrefix>> \o join(names, "\", \"") \o <<"\"">> >>
            ELSE <<>>)

detectHallucinations(i) ==
    LET isComplete == i.status.def /\ i.status.v = StatusComplete
        hasErrors == Len(OrEmpty(i.errors)) > 0
        hasWarnings == Len(OrEmpty(i.warnings)) > 0
        desc == toLowerCase(OrEmpty(i.description))
        InDesc(w) == includes(desc, w)
        uncertaintyFound == SelectSeq(UNCERTAINTY_WORDS, InDesc)
        names == [k \in 1..Len(uncertaintyFound) |-> UncertaintyName(uncertaintyFound[k])]
    IN  (IF i.testsPassed /\ (~i.testOutput.def \/ i.testOutput.v = <<>>)
         THEN <<FlagNoOutput>> ELSE <<>>)
        \o (IF isComplete /\ ~i.evidence.def THEN <<FlagNoEvidence>> ELSE <<>>)
        \o (IF isComplete /\ ~i.testsPassed THEN <<FlagFailingTests>> ELSE <<>>)
        \o (IF (hasErrors \/ hasWarnings) /\ isComplete
            THEN <<FlagIgnoredSignals>> ELSE <<>>)
        \o (IF Len(uncertaintyFound) > 0
            THEN << <<FlagUncertaintyPrefix>> \o join(names, "\", \"") \o <<"\"">> >>
            ELSE <<>>)

\* ------------------------------------------------------------------------
\* Evidence Validator: report and aggregation
\* ------------------------------------------------------------------------
ReportHeader == <<"[U+1F4CB] Self-Check Validation:">>
ReportTestsPassing == <<"   [U+2705] Tests passing">>
ReportRequirementsMet == <<"   [U+2705] All requirements met">>
ReportAssumptionsVerified == <<"   [U+2705] All assumptions verified">>
ReportEvidenceProvided == <<"   [U+2705] Evidence provided">>
ReportPassed == <<"[U+1F4CA] Validation: PASSED">>
ReportComplete == <<"[U+2705] Implementation complete with evidence">>
ReportFailed == <<"[U+1F4CA] Validation: FAILED">>
IssueIndent == "   "
LineBreak == "\n"

\* lines.join("\n"): the pieces of every line, a line break between two lines
RECURSIVE joinLines(_)
joinLines(lines) ==
    IF lines = <<>> THEN <<>>
    ELSE IF Len(lines) = 1 THEN lines[1]
    ELSE lines[1] \o <<LineBreak>> \o joinLines(Tail(lines))

ReportSummary(n) ==
    <<"[U+274C] ", ToString(n), " issue(s) must be resolved before claiming completion">>

\* A slip of SuccessLines: the separator line left out
SuccessLinesNoSeparator ==
    << ReportHeader,
       ReportTestsPassing,
       ReportRequirementsMet,
       ReportAssumptionsVerified,
       ReportEvidenceProvided,
       ReportPassed,
       ReportComplete >>

\* The success block (the literal array of formatReport)
SuccessLines ==
    << ReportHeader,
       ReportTestsPassing,
       ReportRequirementsMet,
       ReportAssumptionsVerified,
       ReportEvidenceProvided,
       <<>>,
       ReportPassed,
       ReportComplete >>

\* A slip of FailureLines: the summary counts the header line too
FailureLinesCountOff(issues) ==
    <<ReportHeader>>
    \o [k \in 1..Len(issues) |-> <<IssueIndent>> \o issues[k]]
    \o << <<>>, ReportFailed, ReportSummary(Len(issues) + 1) >>

\* The failure block: `lines` of formatReport
FailureLines(issues) ==
    <<ReportHeader>>
    \o [k \in 1..Len(issues) |-> <<IssueIndent>> \o issues[k]]
    \o << <<>>, ReportFailed, ReportSummary(Len(issues)) >>

formatReport(passed, issues) ==
    IF passed THEN joinLines(SuccessLines) ELSE joinLines(FailureLines(issues))

HallucinationPrefix == "[U+1F6A8] Hallucination detected: "

\* `if (q) issues.push(q)`
PushIfIssue(q) == IF q.def THEN <<q.v>> ELSE <<>>

\* A slip of CollectIssues: the questions stop at the first one that fails
CollectIssuesShortCircuit(i) ==
    LET q1 == checkTestsPassing(i)
        q2 == checkRequirementsMet(i)
        q3 == checkAssumptionsVerified(i)
        q4 == checkEvidenceExists(i)
        flags == detectHallucinations(i)
        first == IF q1.def THEN <<q1.v>>
                 ELSE IF q2.def THEN <<q2.v>>
                 ELSE IF q3.def THEN <<q3.v>>
                 ELSE PushIfIssue(q4)
    IN  first \o [k \in 1..Len(flags) |-> <<HallucinationPrefix>> \o flags[k]]

\* The issues selfCheck collects: the four questions, then the red flags
CollectIssues(i) ==
    LET q1 == checkTestsPassing(i)
        q2 == checkRequirementsMet(i)
        q3 == checkAssumptionsVerified(i)
        q4 == checkEvidenceExists(i)
        flags == detectHallucinations(i)
    IN  PushIfIssue(q1) \o PushIfIssue(q2) \o PushIfIssue(q3) \o PushIfIssue(q4)
        \o [k \in 1..Len(flags) |-> <<HallucinationPrefix>> \o flags[k]]

\* A slip of IsPassed: only the four questions decide
IsPassedQuestionsOnly(issues) ==
    \A k \in 1..Len(issues) : Head(issues[k]) = HallucinationPrefix

\* `const passed = issues.length === 0`
IsPassed(issues) == Len(issues) = 0

selfCheck(i) ==
    LET issues == CollectIssues(i)
        passed == IsPassed(issues)
    IN  [passed |-> passed, issues |-> issues, report |-> formatReport(passed, issues)]

\* ------------------------------------------------------------------------
\* Evidence Validator: the claims it is run on
\* ------------------------------------------------------------------------
TestOutputs ==
    { Absent,
      Some(<<>>),
      Some(<<" ", "\n">>),
      Some(<<"3", " ", "P", "a", "s", "s", "e", "d">>),
      Some(<<"o", "k">>),
      Some(<<"F", "A", "I", "L">>) }

\* <<requirements, requirementsMet>>
RequirementPairs ==
    { <<Absent, Absent>>,
      <<Some(<<"r1", "r2">>), Some(<<"r1">>)>>,
      <<Some(<<"r1">>), Some(<<"r2", "r1">>)>> }

\* <<assumptions, assumptionsVerified>>
AssumptionPairs ==
    { <<Absent, Absent>>,
      <<Some(<<"a1", "a2">>), Some(<<"a2">>)>>,
      <<Some(<<"a1">>), Some(<<"a1">>)>> }

EvidenceTexts == {Absent, Some(<<" ">>), Some(<<"o", "k">>)}
CodeChangeLists == {Absent, Some(<<>>), Some(<<"a.ts: added X">>)}

Evidences ==
    {Absent} \cup
    { Some([testResults |-> tr, codeChanges |-> cc, validation |-> va]) :
        tr \in EvidenceTexts, cc \in CodeChangeLists, va \in {Absent, Some(<<"o", "k">>)} }

Statuses == {Absent, Some("complete"), Some("in progress")}

Descriptions ==
    { Absent,
      Some(<<"d", "o", "n", "e">>),
      Some(<<"P", "r", "o", "b", "a", "b", "l", "y", " ", "f", "i", "n", "e">>),
      Some(<<"m", "a", "y", "b", "e", ";", " ", "s", "e", "e", "m", "s", " ", "t", "o">>) }

\* <<errors, warnings>>
SignalPairs ==
    { <<Absent, Absent>>,
      <<Some(<<"TypeError">>), Absent>>,
      <<Some(<<>>), Some(<<"unused variable">>)>> }

Implementations ==
    { [ testsPassed |-> tp, testOutput |-> out,
        requirements |-> rq[1], requirementsMet |-> rq[2],
        assumptions |-> as[1], assumptionsVerified |-> as[2],
        evidence |-> ev, status |-> st, description |-> de,
        errors |-> sg[1], warnings |-> sg[2] ] :
        tp \in BOOLEAN, out \in TestOutputs, rq \in RequirementPairs,
        as \in AssumptionPairs, ev \in Evidences, st \in Statuses,
        de \in Descriptions, sg \in SignalPairs }

\* ------------------------------------------------------------------------
\* Requirements check: the lists it is run on
\* ------------------------------------------------------------------------
MaxList == 3
RequirementIds == {"r1", "r2", "r3"}

Lists(S, n) == UNION {[1..k -> S] : k \in 0..n}
OptionalLists(S, n) == {Absent} \cup {Some(l) : l \in Lists(S, n)}

BareImplementation ==
    [ testsPassed |-> FALSE, testOutput |-> Absent,
      requirements |-> Absent, requirementsMet |-> Absent,
      assumptions |-> Absent, assumptionsVerified |-> Absent,
      evidence |-> Absent, status |-> Absent, description |-> Absent,
      errors |-> Absent, warnings |-> Absent ]

RequirementClaims ==
    { [BareImplementation EXCEPT !.requirements = r, !.requirementsMet = m] :
        r \in OptionalLists(RequirementIds, MaxList),
        m \in OptionalLists(RequirementIds, MaxList) }

\* ------------------------------------------------------------------------
\* Pattern Matcher: JavaScript values
\* ------------------------------------------------------------------------
\* An ErrorInfo the caller builds holds strings; a record that JSON.parse
\* returns holds whatever the line spelled.  A value carries its type.
Undefined == [t |-> "undefined"]
Null == [t |-> "null"]
Bool(b) == [t |-> "boolean", b |-> b]
Num(n) == [t |-> "number", n |-> n]
Str(s) == [t |-> "string", s |-> s]
Arr(a) == [t |-> "array", a |-> a]
Obj(o) == [t |-> "object", o |-> o]

KeyTestName == <<"t", "e", "s", "t", "N", "a", "m", "e">>
KeyErrorType == <<"e", "r", "r", "o", "r", "T", "y", "p", "e">>
KeyErrorMessage == <<"e", "r", "r", "o", "r", "M", "e", "s", "s", "a", "g", "e">>
KeyTraceback == <<"t", "r", "a", "c", "e", "b", "a", "c", "k">>
KeyRootCause == <<"r", "o", "o", "t", "C", "a", "u", "s", "e">>
KeySolution == <<"s", "o", "l", "u", "t", "i", "o", "n">>
KeyPrevention == <<"p", "r", "e", "v", "e", "n", "t", "i", "o", "n">>
KeyWhyMissed == <<"w", "h", "y", "M", "i", "s", "s", "e", "d">>
KeyLesson == <<"l", "e", "s", "s", "o", "n">>
KeyTimestamp == <<"t", "i", "m", "e", "s", "t", "a", "m", "p">>

\* A function call: it returns a value or throws an error
Return(v) == [ok |-> TRUE, v |-> v]
Throw(e) == [ok |-> FALSE, error |-> e]

\* `v.k` for a v that is neither null nor undefined: an own property of an
\* object, undefined on a primitive or an array (ErrorInfo's names are no
\* property of those)
Get(v, k) == IF v.t = "object" /\ k \in DOMAIN v.o THEN v.o[k] ELSE Undefined

\* `if (v)`
Truthy(v) ==
    CASE v.t \in {"undefined", "null"} -> FALSE
      [] v.t = "boolean" -> v.b
      [] v.t = "number" -> v.n # 0
      [] v.t = "string" -> v.s # <<>>
      [] OTHER -> TRUE

Digits == <<"0", "1", "2", "3", "4", "5", "6", "7", "8", "9">>
IsDigit(c) == c \in Range(Digits)

\* The decimal digits of a natural number
RECURSIVE NatToString(_)
NatToString(n) ==
    IF n < 10 THEN <<Digits[n + 1]>> ELSE NatToString(n \div 10) \o <<Digits[(n % 10) + 1]>>

\* String(v), as Array.prototype.join applies it to an element
RECURSIVE toStringJS(_)
toStringJS(v) ==
    CASE v.t = "string" -> v.s
      [] v.t = "number" -> NatToString(v.n)
      [] v.t = "boolean" -> IF v.b THEN <<"t", "r", "u", "e">>
                             ELSE <<"f", "a", "l", "s", "e">>
      [] v.t = "array" ->
            IF v.a = <<>> THEN <<>>
            ELSE IF Len(v.a) = 1 THEN
                (IF Head(v.a).t \in {"null", "undefined"} THEN <<>>
                 ELSE toStringJS(Head(v.a)))
            ELSE toStringJS(Arr(<<Head(v.a)>>)) \o <<",">> \o toStringJS(Arr(Tail(v.a)))
      [] v.t = "object" ->
            <<"[", "o", "b", "j", "e", "c", "t", " ", "O", "b", "j", "e", "c", "t", "]">>
      [] OTHER -> <<>>

\* ------------------------------------------------------------------------
\* Pattern Matcher: signatures
\* ------------------------------------------------------------------------
SliceCap == 120
Separator == <<" ", "|", " ">>

\* `.replace(/\d+/g, "N")`: every maximal run of digits becomes one N
replaceDigitRuns(s) ==
    LET Starts(k) == ~IsDigit(s[k]) \/ k = 1 \/ ~IsDigit(s[k - 1])
        kept == SelectSeq([k \in 1..Len(s) |-> k], Starts)
    IN  [k \in 1..Len(kept) |-> IF IsDigit(s[kept[k]]) THEN "N" ELSE s[kept[k]]]

\* `.slice(0, n)`
slice0(s, n) == SubSeq(s, 1, IF Len(s) < n THEN Len(s) ELSE n)

\* `parts.join(" | ")` on strings
RECURSIVE joinStrings(_, _)
joinStrings(parts, sep) ==
    IF parts = <<>> THEN <<>>
    ELSE IF Len(parts) = 1 THEN parts[1]
    ELSE parts[1] \o sep \o joinStrings(Tail(parts), sep)

\* A slip of normaliseMessage: the cap applied before the numbers are replaced
normaliseMessageCapFirst(m) == replaceDigitRuns(slice0(m, SliceCap))

\* `errorMessage.replace(/\d+/g, "N").slice(0, 120)`
normaliseMessage(m) == slice0(replaceDigitRuns(m), SliceCap)

createErrorSignature(errorInfo) ==
    IF errorInfo.t \in {"null", "undefined"} THEN Throw("TypeError")
    ELSE
        LET errorType == Get(errorInfo, KeyErrorType)
            errorMessage == Get(errorInfo, KeyErrorMessage)
            testName == Get(errorInfo, KeyTestName)
        IN  IF Truthy(errorMessage) /\ errorMessage.t # "string"
            THEN Throw("TypeError")    \* errorMessage.replace is not a function
            ELSE Return(joinStrings(
                    (IF Truthy(errorType) THEN <<toStringJS(errorType)>> ELSE <<>>)
                    \o (IF Truthy(errorMessage)
                        THEN <<normaliseMessage(errorMessage.s)>> ELSE <<>>)
                    \o (IF Truthy(testName) THEN <<toStringJS(testName)>> ELSE <<>>),
                    Separator))

\* `new Set(sig.toLowerCase().split(/\s+/).filter(Boolean))`: the maximal
\* runs of characters that are not white space
words(sig) ==
    LET s == toLowerCase(sig)
        Ink(k) == s[k] \notin WhiteSpace
        starts == {a \in 1..Len(s) : Ink(a) /\ (a = 1 \/ ~Ink(a - 1))}
        EndOf(a) == SetMin({b \in a..Len(s) : b = Len(s) \/ ~Ink(b + 1)})
    IN  {SubSeq(s, a, EndOf(a)) : a \in starts}

\* A slip of DefaultThreshold: the 75% of the documentation's example
DefaultThresholdThreeQuarters == <<3, 4>>

\* `threshold = 0.7`.  A threshold is the fraction <<numerator, denominator>>
\* with a positive denominator.
DefaultThreshold == <<7, 10>>

\* A slip of matchSignatures: the overlap measured against the first
\* signature's words, not against the union
matchSignaturesOneSided(sig1, sig2, threshold) ==
    LET words1 == words(sig1)
        words2 == words(sig2)
        overlap == Cardinality({w \in words1 : w \in words2})
    IN  IF words1 = {} \/ words2 = {} THEN FALSE
        ELSE overlap * threshold[2] >= threshold[1] * Cardinality(words1)

\* A slip of matchSignatures: no early return for an empty word set (0 / 0
\* is NaN, which no threshold is below)
matchSignaturesNoEmptyReturn(sig1, sig2, threshold) ==
    LET words1 == words(sig1)
        words2 == words(sig2)
        overlap == Cardinality({w \in words1 : w \in words2})
        union == Cardinality(words1 \cup words2)
    IN  IF union = 0 THEN FALSE
        ELSE overlap * threshold[2] >= threshold[1] * union

\* `overlap / union >= threshold` is compared on the integers: the quotient
\* of two word counts and a threshold of small terms are apart by far more
\* than the rounding of a double unless they are equal, and then both sides
\* round to the same double.
matchSignatures(sig1, sig2, threshold) ==
    LET words1 == words(sig1)
        words2 == words(sig2)
        overlap == Cardinality({w \in words1 : w \in words2})
        union == Cardinality(words1 \cup words2)
    IN  IF words1 = {} \/ words2 = {} THEN FALSE
        ELSE overlap * threshold[2] >= threshold[1] * union

\* ------------------------------------------------------------------------
\* Pattern Matcher: the records and signatures it is run on
\* ------------------------------------------------------------------------
Pad(c, n) == [k \in 1..n |-> c]

\* What precedes the body of a message: nothing, or text that ends at or a
\* few characters before the cap
MessagePads ==
    {<<>>} \cup {Pad(c, n) : c \in {"a", " "}, n \in {SliceCap - 4, SliceCap}}

MessageBodies ==
    { <<" ", "5", " ", "b">>,
      <<" ", "1", "2", "3", " ", "b">>,
      <<"x", "7">> }

Messages == {p \o b : p \in MessagePads, b \in MessageBodies}

ErrorInfoOf(errorType, errorMessage, testName) ==
    LET given == {f \in { <<KeyErrorType, errorType>>,
                          <<KeyErrorMessage, errorMessage>>,
                          <<KeyTestName, testName>> } : f[2].def}
    IN  Obj([k \in {f[1] : f \in given} |->
                Str((CHOOSE f \in given : f[1] = k)[2].v)])

SignatureRecords ==
    { ErrorInfoOf(ty, msg, tn) :
        ty \in {Absent, Some(<<"E">>)},
        msg \in {Absent} \cup {Some(m) : m \in Messages},
        tn \in {Absent, Some(<<"t">>)} }

SignatureCalculation ==
    <<"A", "s", "s", "e", "r", "t", "i", "o", "n", "E", "r", "r", "o", "r">>
    \o Separator
    \o <<"E", "x", "p", "e", "c", "t", "e", "d", " ", "N", " ", "g", "o", "t", " ", "N">>
    \o Separator
    \o <<"t", "e", "s", "t", "_", "c", "a", "l", "c", "u", "l", "a", "t", "i", "o", "n">>

SignatureMath ==
    <<"A", "s", "s", "e", "r", "t", "i", "o", "n", "E", "r", "r", "o", "r">>
    \o Separator
    \o <<"E", "x", "p", "e", "c", "t", "e", "d", " ", "N", " ", "g", "o", "t", " ", "N">>
    \o Separator
    \o <<"t", "e", "s", "t", "_", "m", "a", "t", "h">>

RawSignatures ==
    { SignatureCalculation,
      SignatureMath,
      <<>>,
      <<" ", "\t">>,
      <<"a", " ", "b">>,
      <<"B", " ", " ", "a", "\n", "c", " ", "b">>,
      <<"a", " ", "b", " ", "c", " ", "d">> }

Thresholds == { <<7, 10>>, <<0, 1>>, <<1, 1>>, <<1, 2>>, <<-1, 2>>, <<3, 4>> }

\* ------------------------------------------------------------------------
\* Pattern Matcher: the lines of the log
\* ------------------------------------------------------------------------
\* A line is the sequence of its lexical tokens: the six punctuation marks
\* of JSON, a literal (null, true, false, a number, a quoted string), a
\* white space character, or a character that begins no JSON token.  The
\* strings of the model hold no character that JSON escapes.
LBrace == [p |-> "{"]
RBrace == [p |-> "}"]
LBracket == [p |-> "["]
RBracket == [p |-> "]"]
Colon == [p |-> ":"]
Comma == [p |-> ","]
Lit(v) == [lit |-> v]
Ws == [ws |-> " "]
Junk == [junk |-> "?"]

IsLit(tok) == "lit" \in DOMAIN tok
IsInk(tok) == tok # Ws

\* `line.trim()`
trimLine(line) ==
    LET inked == {k \in 1..Len(line) : IsInk(line[k])}
    IN  IF inked = {} THEN <<>> ELSE SubSeq(line, SetMin(inked), SetMax(inked))

NoParse == [ok |-> FALSE]
Parsed(v, next) == [ok |-> TRUE, v |-> v, next |-> next]

\* The JSON grammar: the value that starts at token p, and where it ends
RECURSIVE parseValue(_, _), parseElements(_, _, _), parseMembers(_, _, _)
parseValue(ts, p) ==
    IF p > Len(ts) THEN NoParse
    ELSE IF IsLit(ts[p]) THEN Parsed(ts[p].lit, p + 1)
    ELSE IF ts[p] = LBracket THEN
        (IF p + 1 <= Len(ts) /\ ts[p + 1] = RBracket THEN Parsed(Arr(<<>>), p + 2)
         ELSE parseElements(ts, p + 1, <<>>))
    ELSE IF ts[p] = LBrace THEN
        (IF p + 1 <= Len(ts) /\ ts[p + 1] = RBrace THEN Parsed(Obj(<<>>), p + 2)
         ELSE parseMembers(ts, p + 1, <<>>))
    ELSE NoParse

parseElements(ts, p, acc) ==
    LET r == parseValue(ts, p)
    IN  IF ~r.ok \/ r.next > Len(ts) THEN NoParse
        ELSE IF ts[r.next] = Comma THEN parseElements(ts, r.next + 1, Append(acc, r.v))
        ELSE IF ts[r.next] = RBracket THEN Parsed(Arr(Append(acc, r.v)), r.next + 1)
        ELSE NoParse

\* A member is a quoted name, a colon and a value; a name given twice keeps
\* its last value
parseMembers(ts, p, acc) ==
    IF p + 2 > Len(ts) \/ ~IsLit(ts[p]) \/ ts[p].lit.t # "string" \/ ts[p + 1] # Colon
    THEN NoParse
    ELSE
        LET r == parseValue(ts, p + 2)
            name == ts[p].lit.s
            members == [k \in DOMAIN acc \cup {name} |-> IF k = name THEN r.v ELSE acc[k]]
        IN  IF ~r.ok \/ r.next > Len(ts) THEN NoParse
            ELSE IF ts[r.next] = Comma THEN parseMembers(ts, r.next + 1, members)
            ELSE IF ts[r.next] = RBrace THEN Parsed(Obj(members), r.next + 1)
            ELSE NoParse

\* JSON.parse: white space between tokens is skipped, and the value must be
\* the whole text
JSONparse(text) ==
    LET ts == SelectSeq(text, IsInk)
        r == parseValue(ts, 1)
    IN  IF r.ok /\ r.next = Len(ts) + 1 THEN Return(r.v) ELSE Throw("SyntaxError")

\* A slip of JSON.stringify: the message is not written
FieldOrderNoMessage ==
    << KeyTestName, KeyErrorType, KeyTraceback, KeyRootCause,
       KeySolution, KeyPrevention, KeyWhyMissed, KeyLesson, KeyTimestamp >>

\* The order in which JSON.stringify writes the properties of an ErrorInfo.
\* (It is their insertion order, which the model does not keep; no reader of
\* a line depends on it.)
FieldOrder ==
    << KeyTestName, KeyErrorType, KeyErrorMessage, KeyTraceback, KeyRootCause,
       KeySolution, KeyPrevention, KeyWhyMissed, KeyLesson, KeyTimestamp >>

\* JSON.stringify of an ErrorInfo: its properties that are not undefined
RECURSIVE writeMembers(_, _)
writeMembers(o, names) ==
    IF names = <<>> THEN <<>>
    ELSE <<Lit(Str(Head(names))), Colon, Lit(o[Head(names)])>>
         \o (IF Len(names) = 1 THEN <<>> ELSE <<Comma>>)
         \o writeMembers(o, Tail(names))

JSONstringify(v) ==
    LET Written(k) == k \in DOMAIN v.o /\ v.o[k].t # "undefined"
    IN  <<LBrace>> \o writeMembers(v.o, SelectSeq(FieldOrder, Written)) \o <<RBrace>>

\* Date.prototype.toISOString of the clock reading, which counts
\* milliseconds from the start of the model's day
toISOString(time) ==
    <<"2", "0", "2", "6", "-", "0", "1", "-", "0", "1", "T",
      "0", "0", ":", "0", "0", ":", "0", "0", ".">>
    \o <<Digits[((time \div 100) % 10) + 1], Digits[((time \div 10) % 10) + 1],
         Digits[(time % 10) + 1]>>
    \o <<"Z">>

\* A slip of serialiseSolution: a timestamp the record already has is kept
serialiseSolutionKeepsTimestamp(errorInfo, time) ==
    LET record ==
            Obj([k \in DOMAIN errorInfo.o \cup {KeyTimestamp} |->
                    IF k \in DOMAIN errorInfo.o THEN errorInfo.o[k]
                    ELSE Str(toISOString(time))])
    IN  JSONstringify(record)

\* serialiseSolution, with the time `new Date()` reads
serialiseSolution(errorInfo, time) ==
    LET record ==
            Obj([k \in DOMAIN errorInfo.o \cup {KeyTimestamp} |->
                    IF k = KeyTimestamp THEN Str(toISOString(time)) ELSE errorInfo.o[k]])
    IN  JSONstringify(record)

\* The caller's errorInfo after serialiseSolution returned: the spread
\* `{ ...errorInfo, timestamp }` builds a new object and the argument is
\* left as it was
errorInfoAfterSerialise(errorInfo, time) == errorInfo

\* ------------------------------------------------------------------------
\* Pattern Matcher: lookup
\* ------------------------------------------------------------------------
SolutionOf(record) ==
    [ rootCause |-> Get(record, KeyRootCause),
      solution |-> Get(record, KeySolution),
      prevention |-> Get(record, KeyPrevention),
      lesson |-> Get(record, KeyLesson),
      timestamp |-> Get(record, KeyTimestamp) ]

\* A slip of the loop: the scan goes on after a hit and the last one wins
RECURSIVE scanLinesLastHit(_, _)
scanLinesLastHit(querySig, lines) ==
    IF lines = <<>> THEN Return([found |-> FALSE])
    ELSE
        LET trimmed == trimLine(Head(lines))
            parsed == JSONparse(trimmed)
            recordSig == createErrorSignature(parsed.v)
            later == scanLinesLastHit(querySig, Tail(lines))
        IN  IF trimmed = <<>> THEN later
            ELSE IF ~parsed.ok THEN later
            ELSE IF ~recordSig.ok THEN Throw(recordSig.error)
            ELSE IF matchSignatures(querySig, recordSig.v, DefaultThreshold)
                    /\ ~(later.ok /\ later.v.found)
            THEN Return([found |-> TRUE, solution |-> SolutionOf(parsed.v)])
            ELSE later

\* The loop of lookupSolution over the lines that are left
RECURSIVE scanLines(_, _)
scanLines(querySig, lines) ==
    IF lines = <<>> THEN Return([found |-> FALSE])
    ELSE
        LET trimmed == trimLine(Head(lines))
            parsed == JSONparse(trimmed)
            recordSig == createErrorSignature(parsed.v)
        IN  IF trimmed = <<>> THEN scanLines(querySig, Tail(lines))
            ELSE IF ~parsed.ok THEN scanLines(querySig, Tail(lines))
            ELSE IF ~recordSig.ok THEN Throw(recordSig.error)
            ELSE IF matchSignatures(querySig, recordSig.v, DefaultThreshold)
            THEN Return([found |-> TRUE, solution |-> SolutionOf(parsed.v)])
            ELSE scanLines(querySig, Tail(lines))

lookupSolution(errorInfo, jsonlLines) ==
    LET querySig == createErrorSignature(errorInfo)
    IN  IF ~querySig.ok THEN Throw(querySig.error)
        ELSE scanLines(querySig.v, jsonlLines)

\* ------------------------------------------------------------------------
\* Pattern Matcher: the errors, queries and lines of the log's model
\* ------------------------------------------------------------------------
MaxLog == 3

Field(name, text) == <<name, Str(text)>>
ErrorInfoWith(fields) ==
    Obj([k \in {f[1] : f \in fields} |-> (CHOOSE f \in fields : f[1] = k)[2]])

\* "got 5 of 9" in t1, solved
SolvedCount ==
    ErrorInfoWith({ Field(KeyErrorType, <<"E">>),
                    Field(KeyErrorMessage,
                          <<"g", "o", "t", " ", "5", " ", "o", "f", " ", "9">>),
                    Field(KeyTestName, <<"t", "1">>),
                    Field(KeyRootCause, <<"c", "1">>),
                    Field(KeySolution, <<"s", "1">>) })

\* the same message with other numbers in another test: similar to
\* SolvedCount (5 of 7 words), not the same signature
SolvedCountElsewhere ==
    ErrorInfoWith({ Field(KeyErrorType, <<"E">>),
                    Field(KeyErrorMessage,
                          <<"g", "o", "t", " ", "1", "2", " ", "o", "f", " ", "3", "0">>),
                    Field(KeyTestName, <<"t", "2">>),
                    Field(KeySolution, <<"s", "2">>) })

\* another class of error
SolvedKey ==
    ErrorInfoWith({ Field(KeyErrorType, <<"K">>),
                    Field(KeyErrorMessage, <<"x">>),
                    Field(KeySolution, <<"s", "3">>),
                    Field(KeyLesson, <<"l", "3">>) })

SolvedErrors == {SolvedCount, SolvedCountElsewhere, SolvedKey}

QueryCount ==
    ErrorInfoWith({ Field(KeyErrorType, <<"E">>),
                    Field(KeyErrorMessage,
                          <<"g", "o", "t", " ", "7", " ", "o", "f", " ", "8">>),
                    Field(KeyTestName, <<"t", "1">>) })
QueryKey ==
    ErrorInfoWith({Field(KeyErrorType, <<"K">>), Field(KeyErrorMessage, <<"x">>)})
QueryNothing == ErrorInfoWith({})

Queries == {QueryCount, QueryKey, QueryNothing}

\* a record that already carries a timestamp; the class of SolvedKey
SolvedStamped ==
    ErrorInfoWith({ Field(KeyErrorType, <<"K">>),
                    Field(KeyErrorMessage, <<"x">>),
                    Field(KeySolution, <<"s", "4">>),
                    Field(KeyTimestamp, <<"o", "l", "d">>) })

\* a record with no type, message or test name: its signature is empty
SolvedUnnamed ==
    ErrorInfoWith({ Field(KeyRootCause, <<"c", "5">>), Field(KeySolution, <<"s", "5">>) })

RecordableErrors == SolvedErrors \cup {SolvedStamped, SolvedUnnamed}

\* Lines that serialiseSolution did not write
BlankLine == <<Ws, Ws>>
TruncatedLine == <<LBrace, Lit(Str(KeyErrorType)), Colon, Lit(Str(<<"E">>))>>
NullLine == <<Lit(Null)>>
NumberLine == <<Lit(Num(7))>>
NumericMessageLine ==
    << LBrace, Lit(Str(KeyErrorMessage)), Colon, Lit(Num(5)), Comma,
       Lit(Str(KeySolution)), Colon, Lit(Str(<<"s", "5">>)), RBrace >>
PaddedLine ==
    << Ws, LBrace, Lit(Str(KeySolution)), Colon, Ws, Lit(Str(<<"s", "6">>)), Comma,
       Lit(Str(KeyErrorType)), Colon, Lit(Str(<<"E">>)), Comma,
       Lit(Str(KeyErrorType)), Colon, Lit(Str(<<"K">>)), Comma,
       Lit(Str(KeyErrorMessage)), Colon, Lit(Str(<<"x">>)), RBrace, Ws >>

ForeignLines ==
    {BlankLine, TruncatedLine, NullLine, NumberLine, NumericMessageLine, PaddedLine}

\* ------------------------------------------------------------------------
\* State machines
\* ------------------------------------------------------------------------
validatorVars == <<impl, verdict, reqIssue>>
matcherVars == <<left, right, sigs, similar>>
NotRun == [run |-> FALSE]

logVars == <<log, now, lookup, recorded>>
vars ==
    <<impl, verdict, reqIssue, left, right, sigs, similar, log, now, lookup, recorded>>

NoInput == [t |-> "none"]

ValidatorIdle ==
    /\ impl = BareImplementation
    /\ verdict = Absent
    /\ reqIssue = NotRun

MatcherIdle ==
    /\ left = NoInput
    /\ right = NoInput
    /\ sigs = Absent
    /\ similar = Absent

LogIdle ==
    /\ log = <<>>
    /\ now = 0
    /\ lookup = Absent
    /\ recorded = <<>>

\* selfCheck(impl): the caller validates its claim
SelfCheck ==
    /\ ~verdict.def
    /\ verdict' = Some(selfCheck(impl))
    /\ UNCHANGED <<impl, reqIssue, matcherVars, logVars>>

InitSelfCheck ==
    /\ impl \in Implementations
    /\ verdict = Absent
    /\ reqIssue = NotRun
    /\ MatcherIdle
    /\ LogIdle

NextSelfCheck == SelfCheck

SpecSelfCheck == InitSelfCheck /\ [][NextSelfCheck]_vars

\* checkRequirementsMet(impl) alone
CheckRequirements ==
    /\ ~reqIssue.run
    /\ reqIssue' = [run |-> TRUE, issue |-> checkRequirementsMet(impl)]
    /\ UNCHANGED <<impl, verdict, matcherVars, logVars>>

InitRequirements ==
    /\ impl \in RequirementClaims
    /\ verdict = Absent
    /\ reqIssue = NotRun
    /\ MatcherIdle
    /\ LogIdle

NextRequirements == CheckRequirements

SpecRequirements == InitRequirements /\ [][NextRequirements]_vars

\* ------------------------------------------------------------------------
\* Pattern Matcher: createErrorSignature and matchSignatures
\* ------------------------------------------------------------------------
\* createErrorSignature(left), createErrorSignature(right)
BuildSignatures ==
    /\ left # NoInput
    /\ ~sigs.def
    /\ createErrorSignature(left).ok
    /\ createErrorSignature(right).ok
    /\ sigs' = Some(<<createErrorSignature(left).v, createErrorSignature(right).v>>)
    /\ UNCHANGED <<left, right, similar, validatorVars, logVars>>

\* matchSignatures(sig1, sig2, threshold)
MatchWithThreshold ==
    /\ sigs.def
    /\ ~similar.def
    /\ \E th \in Thresholds :
          similar' = Some([ threshold |-> th, defaulted |-> FALSE,
                            result |-> matchSignatures(sigs.v[1], sigs.v[2], th) ])
    /\ UNCHANGED <<left, right, sigs, validatorVars, logVars>>

\* matchSignatures(sig1, sig2)
MatchWithDefault ==
    /\ sigs.def
    /\ ~similar.def
    /\ similar' = Some([ threshold |-> DefaultThreshold, defaulted |-> TRUE,
                         result |-> matchSignatures(sigs.v[1], sigs.v[2],
                                                    DefaultThreshold) ])
    /\ UNCHANGED <<left, right, sigs, validatorVars, logVars>>

InitSignatures ==
    /\ ValidatorIdle
    /\ LogIdle
    /\ similar = Absent
    /\ \/ /\ left \in SignatureRecords
          /\ right \in SignatureRecords
          /\ sigs = Absent
       \/ /\ left = NoInput
          /\ right = NoInput
          /\ \E a \in RawSignatures, b \in RawSignatures : sigs = Some(<<a, b>>)

NextSignatures == BuildSignatures \/ MatchWithThreshold \/ MatchWithDefault

SpecSignatures == InitSignatures /\ [][NextSignatures]_vars

\* ------------------------------------------------------------------------
\* Pattern Matcher: the log
\* ------------------------------------------------------------------------
\* The caller appends serialiseSolution(errorInfo) to the log; the clock
\* moves on
RecordCall(e) ==
    /\ log' = Append(log, serialiseSolution(e, now))
    /\ recorded' = Append(recorded, [ errorInfo |-> e, time |-> now,
                                      after |-> errorInfoAfterSerialise(e, now),
                                      line |-> Len(log) + 1 ])
    /\ now' = now + 1

RecordSolution ==
    /\ Len(log) < MaxLog
    /\ \E e \in SolvedErrors : RecordCall(e)
    /\ UNCHANGED <<lookup, validatorVars, matcherVars>>

\* Something else writes a line to the file: an editor, a writer that was
\* cut short, another tool
AppendForeignLine ==
    /\ Len(log) < MaxLog
    /\ \E line \in ForeignLines : log' = Append(log, line)
    /\ UNCHANGED <<now, lookup, recorded, validatorVars, matcherVars>>

\* lookupSolution(query, log)
Lookup ==
    /\ \E q \in Queries :
          lookup' = Some([query |-> q, lines |-> log, outcome |-> lookupSolution(q, log)])
    /\ UNCHANGED <<log, now, recorded, validatorVars, matcherVars>>

Init ==
    /\ ValidatorIdle
    /\ MatcherIdle
    /\ LogIdle

Next == RecordSolution \/ AppendForeignLine \/ Lookup

Spec == Init /\ [][Next]_vars

\* ------------------------------------------------------------------------
\* Pattern Matcher: a log that only serialiseSolution writes
\* ------------------------------------------------------------------------
RecordAnySolution ==
    /\ Len(log) < MaxLog
    /\ \E e \in RecordableErrors : RecordCall(e)
    /\ UNCHANGED <<lookup, validatorVars, matcherVars>>

\* lookupSolution(r, log) for a failure r that was recorded
LookupRecorded ==
    /\ \E k \in 1..Len(recorded) :
          lookup' = Some([ query |-> recorded[k].errorInfo, lines |-> log,
                          outcome |-> lookupSolution(recorded[k].errorInfo, log) ])
    /\ UNCHANGED <<log, now, recorded, validatorVars, matcherVars>>

NextRecording == RecordAnySolution \/ LookupRecorded

SpecRecording == Init /\ [][NextRecording]_vars

\* ------------------------------------------------------------------------
\* Evidence Validator: properties
\* ------------------------------------------------------------------------
\* The lines of a text: String.prototype.split("\n")
RECURSIVE SplitLines(_)
SplitLines(t) ==
    LET breaks == {k \in 1..Len(t) : t[k] = LineBreak}
    IN  IF breaks = {} THEN <<t>>
        ELSE <<SubSeq(t, 1, SetMin(breaks) - 1)>>
             \o SplitLines(SubSeq(t, SetMin(breaks) + 1, Len(t)))

QuestionResults(i) ==
    << checkTestsPassing(i), checkRequirementsMet(i),
       checkAssumptionsVerified(i), checkEvidenceExists(i) >>

IsIssue(q) == q.def

\* C1: the verdict's passed flag is true exactly when its issues list is
\* empty, which is exactly when none of the four questions returned an issue
\* and the red-flag detector returned no flag.
C1_PassedIffNoIssues ==
    verdict.def =>
        /\ verdict.v.passed <=> (verdict.v.issues = <<>>)
        /\ verdict.v.passed <=>
              /\ \A k \in 1..4 : ~QuestionResults(impl)[k].def
              /\ detectHallucinations(impl) = <<>>

C1_Witness ==
    /\ verdict.def
    /\ verdict.v.passed
    /\ impl.status = Some(StatusComplete)
    /\ impl.requirements.def

\* C4 as claimed: a passed verdict's report is exactly five lines, the four
\* confirmation lines and one final status line.
C4_FiveLines ==
    (verdict.def /\ verdict.v.passed) =>
        LET lines == SplitLines(verdict.v.report)
        IN  /\ Len(lines) = 5
            /\ SubSeq(lines, 1, 4) =
                  << ReportTestsPassing, ReportRequirementsMet,
                     ReportAssumptionsVerified, ReportEvidenceProvided >>

\* C4 amended: a passed verdict's report is a fixed block of exactly eight
\* lines: the header, the four confirmation lines, an empty separator line,
\* the PASSED status line and the closing completion line.
C4_EightLines ==
    (verdict.def /\ verdict.v.passed) =>
        LET lines == SplitLines(verdict.v.report)
        IN  /\ Len(lines) = 8
            /\ lines[1] = ReportHeader
            /\ SubSeq(lines, 2, 5) =
                  << ReportTestsPassing, ReportRequirementsMet,
                     ReportAssumptionsVerified, ReportEvidenceProvided >>
            /\ lines[6] = <<>>
            /\ lines[7] = ReportPassed
            /\ lines[8] = ReportComplete

C4_Witness ==
    /\ verdict.def
    /\ verdict.v.passed
    /\ Len(SplitLines(verdict.v.report)) = 8

C6_IssueOrder ==
    verdict.def =>
        LET failing == SelectSeq(QuestionResults(impl), IsIssue)
            flags == detectHallucinations(impl)
            n == Len(failing)
            issues == verdict.v.issues
        IN  /\ Len(issues) = n + Len(flags)
            /\ \A k \in 1..n :
                  /\ issues[k] = failing[k].v
                  /\ Head(issues[k]) # HallucinationPrefix
            /\ \A k \in 1..Len(flags) :
                  /\ Head(issues[n + k]) = HallucinationPrefix
                  /\ Tail(issues[n + k]) = flags[k]

C6_Witness ==
    /\ verdict.def
    /\ \A k \in 1..4 : QuestionResults(impl)[k].def
    /\ Len(detectHallucinations(impl)) >= 2
    /\ Len(verdict.v.issues) = 4 + Len(detectHallucinations(impl))

\* C7: the requirements check returns no issue exactly when every element
\* of the requirements list is an element of the met list, whatever the
\* order and the repetitions in either list; with no requirements it returns
\* no issue; and an issue it returns is one text that lists exactly the
\* unmet entries.
C7_RequirementsContainment ==
    reqIssue.run =>
        LET R == OrEmpty(impl.requirements)
            M == OrEmpty(impl.requirementsMet)
            unmet == {r \in Range(R) : r \notin Range(M)}
        IN  /\ ~reqIssue.issue.def <=> (Range(R) \subseteq Range(M))
            /\ (~impl.requirements.def \/ R = <<>>) => ~reqIssue.issue.def
            /\ reqIssue.issue.def =>
                  /\ Head(reqIssue.issue.v) = RequirementsPrefix
                  /\ {p \in Range(Tail(reqIssue.issue.v)) : p # ", "} = unmet

C7_Witness ==
    /\ reqIssue.run
    /\ ~reqIssue.issue.def
    /\ Len(OrEmpty(impl.requirements)) = 3
    /\ Cardinality(Range(OrEmpty(impl.requirements))) = 2
    /\ Len(OrEmpty(impl.requirementsMet)) = 3
    /\ OrEmpty(impl.requirementsMet) # OrEmpty(impl.requirements)
    /\ Head(OrEmpty(impl.requirementsMet)) # Head(OrEmpty(impl.requirements))

\* ------------------------------------------------------------------------
\* Pattern Matcher: properties of signatures
\* ------------------------------------------------------------------------
\* C8: matchSignatures is symmetric: with the two signatures exchanged and
\* the same threshold it returns what the call returned.
C8_Symmetric ==
    similar.def =>
        similar.v.result = matchSignatures(sigs.v[2], sigs.v[1], similar.v.threshold)

C8_Witness ==
    /\ similar.def
    /\ similar.v.result
    /\ similar.v.threshold = <<1, 2>>
    /\ Cardinality(words(sigs.v[1])) < Cardinality(words(sigs.v[2]))
    /\ ~matchSignatures(sigs.v[1], sigs.v[2], <<3, 4>>)

\* s without the digits it starts with
DropDigits(s) ==
    LET others == {k \in 1..Len(s) : ~IsDigit(s[k])}
    IN  IF others = {} THEN <<>> ELSE SubSeq(s, SetMin(others), Len(s))

\* Two messages that differ only in the digits of their numeric runs: the
\* same characters outside the runs, and a run in one wherever the other
\* has one
RECURSIVE DigitsOnlyDiffer(_, _)
DigitsOnlyDiffer(a, b) ==
    IF a = <<>> \/ b = <<>> THEN a = b
    ELSE IF IsDigit(Head(a)) \/ IsDigit(Head(b))
    THEN /\ IsDigit(Head(a))
         /\ IsDigit(Head(b))
         /\ DigitsOnlyDiffer(DropDigits(a), DropDigits(b))
    ELSE Head(a) = Head(b) /\ DigitsOnlyDiffer(Tail(a), Tail(b))

\* The default-threshold comparison of the signatures of two records with
\* the same errorType and testName whose messages differ only in the digits
\* of their numeric runs
SameClassCompared ==
    /\ similar.def
    /\ similar.v.defaulted
    /\ left # NoInput
    /\ Get(left, KeyErrorType) = Get(right, KeyErrorType)
    /\ Get(left, KeyTestName) = Get(right, KeyTestName)
    /\ Get(left, KeyErrorMessage).t = "string"
    /\ Get(right, KeyErrorMessage).t = "string"
    /\ \E k \in 1..Len(Get(left, KeyErrorMessage).s) :
          IsDigit(Get(left, KeyErrorMessage).s[k])
    /\ DigitsOnlyDiffer(Get(left, KeyErrorMessage).s, Get(right, KeyErrorMessage).s)

\* C9 as claimed: the signatures of two such records are declared similar
\* at the default threshold.
C9_AlwaysSimilar == SameClassCompared => similar.v.result

\* C9 amended: the signatures of two such records are the same string, the
\* digit runs being replaced before the cut to 120 characters, and
\* matchSignatures declares them similar at the default threshold exactly
\* when that string holds at least one word.
C9_SameSignature ==
    SameClassCompared =>
        /\ sigs.v[1] = sigs.v[2]
        /\ similar.v.result <=> (words(sigs.v[1]) # {})

C9_Witness ==
    /\ SameClassCompared
    /\ similar.v.result
    /\ Len(Get(left, KeyErrorMessage).s) = SliceCap
    /\ Len(Get(right, KeyErrorMessage).s) > SliceCap
    /\ ~Truthy(Get(left, KeyErrorType))
    /\ ~Truthy(Get(left, KeyTestName))

\* C10: the two signatures of the documentation's example share five of
\* their seven distinct lower-cased words, which is at least 0.70, and
\* matchSignatures called without a threshold returns true for them.
C10_ExampleMatches ==
    ( /\ similar.def
      /\ similar.v.defaulted
      /\ sigs.v \in { <<SignatureCalculation, SignatureMath>>,
                      <<SignatureMath, SignatureCalculation>> } ) =>
        /\ similar.v.result
        /\ Cardinality(words(sigs.v[1]) \cap words(sigs.v[2])) = 5
        /\ Cardinality(words(sigs.v[1]) \cup words(sigs.v[2])) = 7

C10_Witness ==
    /\ similar.def
    /\ similar.v.defaulted
    /\ similar.v.result
    /\ sigs.v = <<SignatureCalculation, SignatureMath>>

\* ------------------------------------------------------------------------
\* Pattern Matcher: properties of lookup
\* ------------------------------------------------------------------------
\* What a line decodes to, if it is JSON text
Decoded(line) == JSONparse(trimLine(line))

\* The line decodes to a record whose signature is similar to the query's
\* at the default threshold
IsHit(query, line) ==
    /\ Decoded(line).ok
    /\ createErrorSignature(Decoded(line).v).ok
    /\ matchSignatures(createErrorSignature(query).v,
                       createErrorSignature(Decoded(line).v).v, <<7, 10>>)

Found(outcome) == outcome.ok /\ outcome.v.found

\* C2: lookupSolution returns found = true exactly when some line decodes to
\* a record whose signature is similar to the query's at threshold 0.7; the
\* solution it returns is that of the first such line in the order
\* supplied; with no lines it returns found = false.
C2_FirstHitReturned ==
    lookup.def =>
        LET lines == lookup.v.lines
            hits == {k \in 1..Len(lines) : IsHit(lookup.v.query, lines[k])}
        IN  /\ Found(lookup.v.outcome) <=> (hits # {})
            /\ Found(lookup.v.outcome) =>
                  lookup.v.outcome.v.solution = SolutionOf(Decoded(lines[SetMin(hits)]).v)
            /\ lines = <<>> => lookup.v.outcome = Return([found |-> FALSE])

\* A line that holds a failure record: JSON text of an object whose fields
\* are all text
IsFailureRecord(line) ==
    /\ Decoded(line).ok
    /\ Decoded(line).v.t = "object"
    /\ \A k \in DOMAIN Decoded(line).v.o : Decoded(line).v.o[k].t = "string"

WithoutCorruptLines(lines) == SelectSeq(lines, IsFailureRecord)

\* C3: lookupSolution never raises, and it returns what it returns on the
\* same lines with every line that holds no failure record removed.
C3_CorruptLinesSkipped ==
    lookup.def =>
        /\ lookup.v.outcome.ok
        /\ lookup.v.outcome =
              lookupSolution(lookup.v.query, WithoutCorruptLines(lookup.v.lines))

\* Where no line decodes to null or to a record with a message that is not
\* text, both hold: the scan returns the first hit and skips the lines that
\* JSON.parse rejects.
NoLineThrows(lines) ==
    \A k \in 1..Len(lines) :
        Decoded(lines[k]).ok => createErrorSignature(Decoded(lines[k]).v).ok

LookupWhereNoLineThrows ==
    (lookup.def /\ NoLineThrows(lookup.v.lines)) =>
        LET lines == lookup.v.lines
            hits == {k \in 1..Len(lines) : IsHit(lookup.v.query, lines[k])}
        IN  /\ lookup.v.outcome.ok
            /\ Found(lookup.v.outcome) <=> (hits # {})
            /\ Found(lookup.v.outcome) =>
                  lookup.v.outcome.v.solution = SolutionOf(Decoded(lines[SetMin(hits)]).v)
            /\ lookup.v.outcome =
                  lookupSolution(lookup.v.query, WithoutCorruptLines(lines))

\* ------------------------------------------------------------------------
\* Evidence Validator: adding evidence
\* ------------------------------------------------------------------------
\* An evidence record with one of its three fields filled in
OneFieldEvidences ==
    { [NoEvidenceFields EXCEPT !.testResults = Some(<<"o", "k">>)],
      [NoEvidenceFields EXCEPT !.codeChanges = Some(<<"a.ts: added X">>)],
      [NoEvidenceFields EXCEPT !.validation = Some(<<"o", "k">>)] }

AllFieldsEvidence ==
    [ testResults |-> Some(<<"o", "k">>), codeChanges |-> Some(<<"a.ts: added X">>),
      validation |-> Some(<<"o", "k">>) ]

WithEvidence(i, ev) == [i EXCEPT !.evidence = Some(ev)]

IsEvidenceIssue(issue) == Head(issue) = EvidencePrefix
OtherIssues(issues) ==
    LET Other(issue) == ~IsEvidenceIssue(issue) IN SelectSeq(issues, Other)

\* C12 (as stated): from a claim whose evidence record has none of the three
\* fields, adding any one of them gives a verdict with strictly fewer
\* issues.
C12_StrictlyFewerIssues ==
    (verdict.def /\ impl.evidence = Some(NoEvidenceFields)) =>
        \A ev \in OneFieldEvidences :
            Len(selfCheck(WithEvidence(impl, ev)).issues) < Len(verdict.v.issues)

\* C12 (amended): adding any one field leaves the number of issues as it
\* was: the one missing-evidence issue stays and names the two fields still
\* missing, every other issue is unchanged; with all three fields the
\* missing-evidence issue goes and the count falls by one.
C12_SameIssueCount ==
    (verdict.def /\ impl.evidence = Some(NoEvidenceFields)) =>
        /\ \A ev \in OneFieldEvidences :
              LET after == selfCheck(WithEvidence(impl, ev)).issues
                  evidenceIssues == SelectSeq(after, IsEvidenceIssue)
              IN  /\ Len(after) = Len(verdict.v.issues)
                  /\ OtherIssues(after) = OtherIssues(verdict.v.issues)
                  /\ Len(evidenceIssues) = 1
                  /\ Len(evidenceIssues[1]) = 1 + 3
          \* the prefix, two names and the ", " between them
        /\ Len(SelectSeq(verdict.v.issues, IsEvidenceIssue)[1]) = 1 + 5
        /\ LET after == selfCheck(WithEvidence(impl, AllFieldsEvidence)).issues
           IN  /\ Len(after) = Len(verdict.v.issues) - 1
               /\ after = OtherIssues(verdict.v.issues)

C12_Witness ==
    /\ verdict.def
    /\ impl.evidence = Some(NoEvidenceFields)
    /\ impl.status = Some(StatusComplete)
    /\ Len(verdict.v.issues) = 1
    /\ checkEvidenceExists(impl) =
          Some(<<EvidencePrefix, "testResults", ", ", "codeChanges", ", ", "validation">>)

\* ------------------------------------------------------------------------
\* Evidence Validator: red flags and the four questions
\* ------------------------------------------------------------------------
HasIssue(issues, issue) == \E k \in 1..Len(issues) : issues[k] = issue
HasFlag(issues, flag) == HasIssue(issues, <<HallucinationPrefix>> \o flag)

\* C14: for every claim with testsPassed false and status "complete",
\* whatever its other fields, the issues hold both the tests-not-passing
\* issue and the flag "Claims completion despite failing tests", and passed
\* is false.
C14_FailingTestsComplete ==
    (verdict.def /\ ~impl.testsPassed /\ impl.status = Some(StatusComplete)) =>
        /\ HasIssue(verdict.v.issues, TestsNotPassing)
        /\ HasFlag(verdict.v.issues, FlagFailingTests)
        /\ ~verdict.v.passed

\* a claim that is otherwise in order: evidence, output, nothing unmet
C14_Witness ==
    /\ verdict.def
    /\ ~impl.testsPassed
    /\ impl.status = Some(StatusComplete)
    /\ impl.evidence = Some(AllFieldsEvidence)
    /\ impl.testOutput = Some(<<"3", " ", "P", "a", "s", "s", "e", "d">>)
    /\ verdict.v.issues = <<TestsNotPassing, <<HallucinationPrefix>> \o FlagFailingTests>>

PassesFourQuestions(i) == \A k \in 1..4 : ~QuestionResults(i)[k].def

\* C15: whenever flag A (tests claimed passing without output) or flag C
\* (complete with failing tests) is among the issues, so is an issue of the
\* tests question; whenever flag B (complete without evidence) is, so is
\* the missing-evidence issue.  So a claim that passes all four questions
\* raises none of A, B, C, and fails only through flag D (errors or
\* warnings while complete) or flag E (uncertainty language).
C15_FlagsImplyQuestionIssues ==
    verdict.def =>
        /\ HasFlag(verdict.v.issues, FlagNoOutput) =>
              /\ checkTestsPassing(impl).def
              /\ HasIssue(verdict.v.issues, checkTestsPassing(impl).v)
        /\ HasFlag(verdict.v.issues, FlagFailingTests) =>
              /\ checkTestsPassing(impl).def
              /\ HasIssue(verdict.v.issues, checkTestsPassing(impl).v)
        /\ HasFlag(verdict.v.issues, FlagNoEvidence) =>
              /\ checkEvidenceExists(impl).def
              /\ HasIssue(verdict.v.issues, checkEvidenceExists(impl).v)
        /\ PassesFourQuestions(impl) =>
              /\ ~HasFlag(verdict.v.issues, FlagNoOutput)
              /\ ~HasFlag(verdict.v.issues, FlagNoEvidence)
              /\ ~HasFlag(verdict.v.issues, FlagFailingTests)
              /\ \A k \in 1..Len(verdict.v.issues) :
                    \/ verdict.v.issues[k] = <<HallucinationPrefix>> \o FlagIgnoredSignals
                    \/ /\ Len(verdict.v.issues[k]) > 2
                       /\ verdict.v.issues[k][2] = FlagUncertaintyPrefix

\* passes the four questions and fails on flags D and E
C15_Witness ==
    /\ verdict.def
    /\ PassesFourQuestions(impl)
    /\ ~verdict.v.passed
    /\ HasFlag(verdict.v.issues, FlagIgnoredSignals)
    /\ Len(verdict.v.issues) = 2

\* flags A and B raised together with the issues of their questions
C15_FlagsRaised ==
    /\ verdict.def
    /\ HasFlag(verdict.v.issues, FlagNoOutput)
    /\ HasFlag(verdict.v.issues, FlagNoEvidence)
    /\ HasIssue(verdict.v.issues, TestsNoOutput)

\* ------------------------------------------------------------------------
\* Pattern Matcher: signatures without words
\* ------------------------------------------------------------------------
IsWhiteSpaceOnly(sig) == \A k \in 1..Len(sig) : sig[k] \in WhiteSpace

\* C13: if either signature is empty or white space only, matchSignatures
\* returns false for every threshold, thresholds of 0 and below included,
\* and also when both signatures are empty.
C13_EmptyNeverSimilar ==
    (similar.def /\ (IsWhiteSpaceOnly(sigs.v[1]) \/ IsWhiteSpaceOnly(sigs.v[2]))) =>
        /\ ~similar.v.result
        /\ \A th \in Thresholds : ~matchSignatures(sigs.v[1], sigs.v[2], th)

\* a signature of white space against one with words, threshold below 0
C13_Witness ==
    /\ similar.def
    /\ ~similar.v.result
    /\ similar.v.threshold = <<-1, 2>>
    /\ sigs.v[1] = <<" ", "\t">>
    /\ words(sigs.v[2]) # {}

\* both signatures empty, threshold 0
C13_BothEmpty ==
    /\ similar.def
    /\ ~similar.v.result
    /\ similar.v.threshold = <<0, 1>>
    /\ sigs.v = << <<>>, <<>> >>

\* ------------------------------------------------------------------------
\* Pattern Matcher: properties of recording
\* ------------------------------------------------------------------------
ErrorInfoKeys == Range(FieldOrder)

\* C11: the record serialiseSolution wrote, parsed back, equals the input in
\* every field other than timestamp; its timestamp is the time of the call,
\* whatever timestamp the input had; the input is as it was before the
\* call; and every call adds its own line to the log, also for a failure
\* that was recorded before.
C11_PassThrough ==
    /\ Len(log) = Len(recorded)
    /\ \A k \in 1..Len(recorded) :
          LET r == recorded[k]
              back == JSONparse(trimLine(log[k]))
          IN  /\ r.line = k
              /\ back.ok
              /\ back.v.t = "object"
              /\ DOMAIN back.v.o = DOMAIN r.errorInfo.o \cup {KeyTimestamp}
              /\ \A key \in ErrorInfoKeys \ {KeyTimestamp} :
                    Get(back.v, key) = Get(r.errorInfo, key)
              /\ Get(back.v, KeyTimestamp) = Str(toISOString(r.time))
              /\ r.after = r.errorInfo

\* the same failure recorded twice, and one that came with a timestamp
C11_Witness ==
    /\ Len(recorded) = 3
    /\ recorded[1].errorInfo = SolvedCount
    /\ recorded[2].errorInfo = SolvedCount
    /\ log[1] # log[2]
    /\ recorded[3].errorInfo = SolvedStamped
    /\ Get(JSONparse(log[3]).v, KeyTimestamp) # Get(SolvedStamped, KeyTimestamp)

\* C16: in a log that only holds what serialiseSolution wrote, the lookup of
\* a failure that was recorded, and whose signature has at least one word,
\* returns found = true.
C16_RecordedIsFound ==
    (/\ lookup.def
     /\ \E k \in 1..Len(lookup.v.lines) : recorded[k].errorInfo = lookup.v.query
     /\ words(createErrorSignature(lookup.v.query).v) # {}) =>
        Found(lookup.v.outcome)

\* the match returned is an earlier similar record, not the one looked up
C16_Witness ==
    /\ lookup.def
    /\ lookup.v.query = SolvedCountElsewhere
    /\ Len(lookup.v.lines) = 3
    /\ recorded[3].errorInfo = SolvedCountElsewhere
    /\ Found(lookup.v.outcome)
    /\ lookup.v.outcome.v.solution.solution = Get(SolvedCount, KeySolution)

\* a recorded failure without a word in its signature is not found
C16_UnnamedNotFound ==
    (lookup.def /\ lookup.v.query = SolvedUnnamed) =>
        lookup.v.outcome = Return([found |-> FALSE])

\* ------------------------------------------------------------------------
\* Pattern Matcher: lookup while the log grows
\* ------------------------------------------------------------------------
IsPrefix(s, t) == Len(s) <= Len(t) /\ SubSeq(t, 1, Len(s)) = s

\* C17: when lookupSolution returned found = true with a solution on a log,
\* it returns found = true with the same solution on that log with any
\* lines appended: a result goes from not found to found as the log grows,
\* never from found to not found or to another record.
C17_AppendStable ==
    lookup.def =>
        /\ IsPrefix(lookup.v.lines, log)
        /\ Found(lookup.v.outcome) =>
              lookupSolution(lookup.v.query, log) = lookup.v.outcome

\* found on a log of one line; since then a corrupt line and a closer
\* match were appended
C17_Witness ==
    /\ lookup.def
    /\ Found(lookup.v.outcome)
    /\ Len(lookup.v.lines) = 1
    /\ Len(log) = 3
    /\ log[2] = NullLine
    /\ IsHit(lookup.v.query, log[3])
    /\ SolutionOf(Decoded(log[3]).v) # lookup.v.outcome.v.solution

\* not found on the log as it was, found on the log as it is
C17_NotFoundThenFound ==
    /\ lookup.def
    /\ lookup.v.outcome = Return([found |-> FALSE])
    /\ Found(lookupSolution(lookup.v.query, log))

====
